---- MODULE Spec2Model ----
(***************************************************************************)
(* Model of src/server.js: an Express relay that runs the three-legged     *)
(* OAuth 2.0 handshake against Atlassian, keeps the tokens in the          *)
(* express-session session, refreshes them lazily and proxies three Jira   *)
(* REST calls.                                                             *)
(*                                                                         *)
(* One browser session (one session cookie) is modelled.  A request loads  *)
(* its own copy of the session from the store when it arrives, runs its    *)
(* handler in run-to-completion segments separated by the awaits on the    *)
(* network, and writes the copy back when the response ends, if the copy   *)
(* was modified.  Absent values (JavaScript undefined) are Undefined.      *)
(***************************************************************************)
EXTENDS Integers, Sequences, FiniteSets, TLC

\* ------------------------------------------------------------------ bounds
MaxTime == 1        \* the clock advances this many seconds
MaxExpiresIn == 1   \* expires_in of a token response, in seconds
MaxMint == 2        \* token pairs the token endpoint issues in a run
NStates == 2        \* distinct values crypto.randomBytes may produce
NSites == 2         \* distinct Jira sites the discovery call may list
MaxOverlap == 1     \* requests that may arrive while another is in flight

\* --------------------------------------------------------- program values
Undefined == 0      \* a session field or request parameter that is absent
MsPerSec == 1000    \* expires_in is in seconds, Date.now() in milliseconds
NoDescriptionProvided == -1   \* the text 'No description provided'

Reqs == {1, 2}                       \* requests that may be in flight
States == 1 .. NStates
Sites == 1 .. NSites
TicketKeys == {1, 2}                 \* issues the Jira API may report as created
Kinds == {"initiate", "callback", "status", "disconnect",
          "projects", "issuetypes", "ticket"}
ApiKinds == {"projects", "issuetypes", "ticket"}

\* JavaScript truthiness of the values used here: undefined and 0 are falsy.
Falsy(x) == x = Undefined

\* A session without any field set: what express-session generates for a
\* cookie the store does not know (and what remains after destroy()).
\* tokenHs and siteHs are history carried with the session, not fields of the
\* program: the handshake (named by the access token its exchange returned)
\* that the session's tokens descend from, and the handshake that wrote
\* cloudId, siteName, siteUrl.  They are written only together with
\* accessToken, so they never decide whether a session is saved.
EmptySession ==
  [oauthState |-> Undefined, accessToken |-> Undefined,
   refreshToken |-> Undefined, tokenExpiry |-> Undefined,
   cloudId |-> Undefined, siteName |-> Undefined, siteUrl |-> Undefined,
   tokenHs |-> Undefined, siteHs |-> Undefined]

NoQuery ==
  [code |-> Undefined, state |-> Undefined, projectKey |-> Undefined,
   issueType |-> Undefined, summary |-> Undefined, description |-> Undefined]

NoCalls == [exchange |-> 0, discovery |-> 0, refresh |-> 0, downstream |-> 0]

\* The parameters a request of each kind may carry.
Queries(kind) ==
  CASE kind = "callback" ->
         {[NoQuery EXCEPT !.code = c, !.state = s] :
            c \in {Undefined, 1}, s \in {Undefined} \cup States}
    [] kind = "issuetypes" ->
         {[NoQuery EXCEPT !.projectKey = p] : p \in {Undefined, 1}}
    [] kind = "ticket" ->
         {[NoQuery EXCEPT !.projectKey = p, !.issueType = i,
                          !.summary = s, !.description = d] :
            p \in {Undefined, 1}, i \in {Undefined, 1},
            s \in {Undefined, 1}, d \in {Undefined, 1}}
    [] OTHER -> {NoQuery}

\* The resource lists the discovery endpoint may return: entries {id, name, url}.
Resource(s) == [id |-> s, name |-> s, url |-> s]
ResourceLists ==
  {<<>>} \cup {<<Resource(a)>> : a \in Sites}
         \cup {<<Resource(a), Resource(b)>> : a, b \in Sites}

VARIABLES
  now,        \* Date.now(), in milliseconds
  store,      \* the session as the session store holds it
  req,        \* per request slot: position, session copy, inputs, response
  minted,     \* token pairs issued so far by the token endpoint
  spent,      \* refresh tokens that were sent in a refresh call that succeeded
  hsDone,     \* a handshake completed exchange and discovery on the stored session
  needHs,     \* a refresh failed and no handshake has succeeded since
  accepted,   \* the state value a callback accepted since the last initiate
  overlaps,   \* requests that arrived while another was in flight
  disc,       \* the session was disconnected and no handshake has succeeded since
  superseded  \* a state value that was pending and was then overwritten by
              \* an initiate or destroyed by a disconnect, and not issued since

vars == <<now, store, req, minted, spent, hsDone, needHs, accepted, overlaps,
          disc, superseded>>

\* The answer of the Jira API to a ticket creation, and what the route returns.
NoIssue == [key |-> Undefined, id |-> Undefined]
NoResult == [success |-> FALSE, key |-> Undefined, id |-> Undefined,
             url |-> <<>>]

IdleReq ==
  [pc |-> "idle", kind |-> "none", q |-> NoQuery,
   sess |-> EmptySession, orig |-> EmptySession, live |-> FALSE,
   resp |-> "none", answers |-> 0, calls |-> NoCalls, saved |-> FALSE,
   chkNow |-> 0, chkExp |-> 0, sentRT |-> Undefined,
   tokResp |-> [access_token |-> Undefined, refresh_token |-> Undefined,
                expires_in |-> 0],
   tokAt |-> 0,
   bearer |-> Undefined, tenant |-> Undefined,
   replay |-> FALSE, afterFail |-> FALSE, afterDisc |-> FALSE,
   stale |-> FALSE,
   listed |-> FALSE, resources |-> <<>>, message |-> "none",
   sentText |-> Undefined, upstream |-> NoIssue, result |-> NoResult]

Init ==
  /\ now = MsPerSec
  /\ store = EmptySession
  /\ req = [r \in Reqs |-> IdleReq]
  /\ minted = 0
  /\ spent = {}
  /\ hsDone = FALSE
  /\ needHs = FALSE
  /\ accepted = Undefined
  /\ overlaps = 0
  /\ disc = FALSE
  /\ superseded = Undefined

InFlight(r) == req[r].pc \notin {"idle", "done"}

\* ------------------------------------------------------------ the session
\* express-session (resave: false): when the response ends, the request's
\* session object is written to the store iff it still exists and differs
\* from what was loaded.
ShouldSave(rec) == rec.live /\ rec.sess # rec.orig

\* The response is sent: rec is the request's final record but for pc, resp, saved.
Respond(r, rec, answer) ==
  /\ req' = [req EXCEPT ![r] = [rec EXCEPT !.pc = "done", !.resp = answer,
                                           !.answers = @ + 1,
                                           !.saved = ShouldSave(rec)]]
  /\ store' = IF ShouldSave(rec) THEN rec.sess ELSE store

\* req.session.destroy(): the store forgets the session, the request loses it.
Destroyed(rec) == [rec EXCEPT !.live = FALSE, !.sess = EmptySession]

\* The clock advances.
Tick ==
  /\ now < (1 + MaxTime) * MsPerSec
  /\ now' = now + MsPerSec
  /\ UNCHANGED <<store, req, minted, spent, hsDone, needHs, accepted>>

\* A request arrives: the session middleware loads the session for it.  The
\* request takes the first slot that is free (slots are only names).
Arriving(kind, query) ==
  [IdleReq EXCEPT !.pc = kind, !.kind = kind, !.q = query,
                  !.sess = store, !.orig = store, !.live = TRUE,
                  !.replay = (kind = "callback" /\ ~Falsy(query.state)
                              /\ query.state = accepted),
                  !.afterFail = needHs, !.afterDisc = disc,
                  !.stale = (kind = "callback" /\ ~Falsy(query.state)
                             /\ query.state = superseded)]

Arrive(r, kind, query) ==
  /\ req[r].pc = "idle"
  /\ \A o \in Reqs : o < r => InFlight(o)
  /\ req' = [o \in Reqs |-> IF o = r THEN Arriving(kind, query)
                           ELSE IF InFlight(o) THEN req[o] ELSE IdleReq]
  /\ overlaps' = IF \E o \in Reqs : InFlight(o) THEN overlaps + 1 ELSE overlaps
  /\ UNCHANGED <<now, store, minted, spent, hsDone, needHs, accepted,
                 disc, superseded>>

\* An answered request is over: its req and res objects are released.
Release(r) ==
  /\ req[r].pc = "done"
  /\ req' = [req EXCEPT ![r] = IdleReq]
  /\ UNCHANGED <<now, store, minted, spent, hsDone, needHs, accepted,
                 disc, superseded>>

\* ------------------------------------------------------- GET /auth/jira
\* req.session.oauthState = state
PendingKeepingFirst(sess, s) ==
  IF Falsy(sess.oauthState) THEN [sess EXCEPT !.oauthState = s] ELSE sess

Pending(sess, s) == [sess EXCEPT !.oauthState = s]

Initiate(r) ==
  /\ req[r].pc = "initiate"
  /\ \E s \in States :
       /\ Respond(r, [req[r] EXCEPT !.sess = Pending(req[r].sess, s)],
                  "Redirect")
       /\ superseded' =
            IF req[r].sess.oauthState \notin {Undefined, s}
            THEN req[r].sess.oauthState
            ELSE IF superseded = s THEN Undefined ELSE superseded
  /\ accepted' = Undefined
  /\ UNCHANGED disc
  /\ UNCHANGED <<now, minted, spent, hsDone, needHs>>

\* --------------------------------------------------- GET /auth/callback
\* The CSRF check of the callback: true when the request is rejected.
StateRejectedIfMissing(query, sess) == Falsy(query.state)

StateRejected(query, sess) ==
  Falsy(query.state) \/ query.state # sess.oauthState

\* delete req.session.oauthState
ClearStateNever(sess) == sess

ClearState(sess) == [sess EXCEPT !.oauthState = Undefined]

\* if (!code)
CodeMissingNever(query) == FALSE

CodeMissing(query) == Falsy(query.code)

\* The callback up to its first await: state check, delete, code check, and
\* the token exchange call is sent.
Callback(r) ==
  /\ req[r].pc = "callback"
  /\ LET rec == req[r] IN
     IF StateRejected(rec.q, rec.sess)
     THEN /\ Respond(r, rec, "CsrfMismatch")
          /\ UNCHANGED <<accepted, superseded>>
     ELSE LET cleared == [rec EXCEPT !.sess = ClearState(rec.sess)] IN
          /\ accepted' = rec.q.state
          /\ superseded' = Undefined
          /\ IF CodeMissing(rec.q)
             THEN Respond(r, cleared, "MissingAuthorizationCode")
             ELSE /\ req' = [req EXCEPT ![r] =
                       [cleared EXCEPT !.pc = "exchange",
                                       !.calls.exchange = @ + 1]]
                  /\ UNCHANGED store
  /\ UNCHANGED <<now, minted, spent, hsDone, needHs>>

\* The token endpoint answers the exchange call: an error, or a fresh token
\* pair; on success the tokens are stored and the discovery call is sent.
TokenResponses ==
  {[access_token |-> minted + 1, refresh_token |-> minted + 1, expires_in |-> e] :
     e \in 0 .. MaxExpiresIn}

\* The session fields a token response sets (callback and refresh alike).
StoreTokens(sess, data, t) ==
  [sess EXCEPT !.accessToken = data.access_token,
               !.refreshToken = data.refresh_token,
               !.tokenExpiry = t + data.expires_in * MsPerSec]

ExchangeReturn(r) ==
  /\ req[r].pc = "exchange"
  /\ LET rec == req[r] IN
     \/ /\ Respond(r, rec, "AuthorizationFailed")
        /\ UNCHANGED minted
     \/ /\ minted < MaxMint
        /\ \E data \in TokenResponses :
             req' = [req EXCEPT ![r] =
               [rec EXCEPT !.sess = [StoreTokens(rec.sess, data, now)
                                       EXCEPT !.tokenHs = data.access_token],
                           !.tokResp = data, !.tokAt = now,
                           !.bearer = data.access_token,
                           !.calls.discovery = @ + 1,
                           !.pc = "discovery"]]
        /\ minted' = minted + 1
        /\ UNCHANGED store
  /\ UNCHANGED <<now, spent, hsDone, needHs, accepted>>

\* The resource the callback keeps from a non-empty discovery list.
PickLastResource(list) == list[Len(list)]

PickResource(list) == list[1]

\* The discovery endpoint answers: an error, or a list of resources.
DiscoveryReturn(r) ==
  /\ req[r].pc = "discovery"
  /\ LET rec == req[r] IN
     \/ /\ Respond(r, [rec EXCEPT !.message = "upstream"],
                   "AuthorizationFailed")
        /\ UNCHANGED <<hsDone, needHs, disc>>
     \/ \E list \in ResourceLists :
          LET got == [rec EXCEPT !.listed = TRUE, !.resources = list] IN
          IF Len(list) = 0
          THEN /\ Respond(r, [got EXCEPT !.message =
                                   "No accessible Jira sites found"],
                          "AuthorizationFailed")
               /\ UNCHANGED <<hsDone, needHs, disc>>
          ELSE LET resource == PickResource(list) IN
               /\ Respond(r, [got EXCEPT !.sess.cloudId = resource.id,
                                         !.sess.siteName = resource.name,
                                         !.sess.siteUrl = resource.url,
                                         !.sess.siteHs =
                                            rec.tokResp.access_token],
                          "AuthorizationSuccessful")
               /\ hsDone' = TRUE
               /\ needHs' = FALSE
               /\ disc' = FALSE
  /\ UNCHANGED <<now, minted, spent, accepted>>

\* ------------------------------------------------------ GET /auth/status
Connected(sess) == ~Falsy(sess.accessToken) /\ ~Falsy(sess.cloudId)

Status(r) ==
  /\ req[r].pc = "status"
  /\ Respond(r, req[r], IF Connected(req[r].sess) THEN "Connected"
                                                  ELSE "NotConnected")
  /\ UNCHANGED <<now, minted, spent, hsDone, needHs, accepted>>

\* ------------------------------------------------- POST /auth/disconnect
\* The configured store is the default in-memory store, whose destroy cannot
\* fail: the err branch of the handler is not reachable.
RespondDestroyed(r, rec, answer) ==
  /\ req' = [req EXCEPT ![r] = [Destroyed(rec) EXCEPT !.pc = "done",
                                                      !.resp = answer,
                                                      !.answers = @ + 1]]
  /\ store' = EmptySession

Disconnect(r) ==
  /\ req[r].pc = "disconnect"
  /\ RespondDestroyed(r, req[r], "Disconnected")
  /\ hsDone' = FALSE
  /\ disc' = TRUE
  /\ superseded' = IF Falsy(req[r].sess.oauthState) THEN superseded
                   ELSE req[r].sess.oauthState
  /\ UNCHANGED <<now, minted, spent, needHs, accepted>>

\* --------------------------------------------------------- /api endpoints
\* requireAuth: true when the request is admitted.
AuthenticatedAlways(sess) == TRUE

Authenticated(sess) == ~Falsy(sess.accessToken)

\* refreshTokenIfNeeded: the expiry test.
TokenExpiredStrictly(sess, t) == ~Falsy(sess.tokenExpiry) /\ t > sess.tokenExpiry

TokenExpired(sess, t) == ~Falsy(sess.tokenExpiry) /\ t >= sess.tokenExpiry

\* The parameter validation of each route handler.
MissingParamsDescriptionForSummary(kind, query) ==
  CASE kind = "issuetypes" -> Falsy(query.projectKey)
    [] kind = "ticket" -> \/ Falsy(query.projectKey)
                          \/ Falsy(query.issueType)
                          \/ Falsy(query.summary) /\ Falsy(query.description)
    [] OTHER -> FALSE

MissingParams(kind, query) ==
  CASE kind = "issuetypes" -> Falsy(query.projectKey)
    [] kind = "ticket" -> \/ Falsy(query.projectKey)
                          \/ Falsy(query.issueType)
                          \/ Falsy(query.summary)
    [] OTHER -> FALSE

\* The Authorization header of a downstream call: the token req.session holds
\* when the call is built.
BearerAsLoaded(rec) == rec.orig.accessToken

Bearer(rec) == rec.sess.accessToken

\* description || 'No description provided'
DescriptionTextAsGiven(description) == description

DescriptionText(description) ==
  IF Falsy(description) THEN NoDescriptionProvided ELSE description

\* `${req.session.siteUrl}/browse/${ticketKey}`
TicketUrl(siteUrl, key) == <<siteUrl, "/browse/", key>>

\* The route handler up to its await: validation, then the downstream call
\* is sent with the session's access token and cloud id.
Handler(r, rec) ==
  IF MissingParams(rec.kind, rec.q)
  THEN Respond(r, rec, "MissingParameter")
  ELSE /\ req' = [req EXCEPT ![r] =
            [rec EXCEPT !.pc = "downstream",
                        !.calls.downstream = @ + 1,
                        !.bearer = Bearer(rec),
                        !.tenant = rec.sess.cloudId,
                        !.sentText = IF rec.kind = "ticket"
                                     THEN DescriptionText(rec.q.description)
                                     ELSE Undefined]]
       /\ UNCHANGED store

\* requireAuth, then refreshTokenIfNeeded up to its await (or through), then
\* the route handler up to its await.
ApiEnter(r) ==
  /\ req[r].pc \in ApiKinds
  /\ LET rec == req[r] IN
     IF ~Authenticated(rec.sess)
     THEN Respond(r, rec, "NotAuthenticated")
     ELSE LET chk == [rec EXCEPT !.chkNow = now,
                                 !.chkExp = rec.sess.tokenExpiry] IN
          IF TokenExpired(rec.sess, now)
          THEN /\ req' = [req EXCEPT ![r] =
                    [chk EXCEPT !.pc = "refresh",
                                !.calls.refresh = @ + 1,
                                !.sentRT = rec.sess.refreshToken]]
               /\ UNCHANGED store
          ELSE Handler(r, chk)
  /\ UNCHANGED <<now, minted, spent, hsDone, needHs, accepted>>

\* The session after a refresh that succeeded with response data at time t.
RefreshedKeepingRefreshToken(sess, data, t) ==
  [StoreTokens(sess, data, t) EXCEPT !.refreshToken = sess.refreshToken]

RefreshedDroppingSite(sess, data, t) ==
  [StoreTokens(sess, data, t) EXCEPT !.cloudId = Undefined,
                                     !.siteName = Undefined,
                                     !.siteUrl = Undefined]

Refreshed(sess, data, t) == StoreTokens(sess, data, t)

\* The token endpoint answers the refresh call: on an error the session is
\* destroyed and the request ends; on success the tokens are replaced and the
\* route handler runs.
RefreshReturnRetrying(r) ==
  /\ req[r].pc = "refresh"
  /\ LET rec == req[r] IN
     \/ /\ IF rec.calls.refresh < 2
           THEN /\ req' = [req EXCEPT ![r].calls.refresh = @ + 1]
                /\ UNCHANGED <<store, hsDone, needHs>>
           ELSE /\ RespondDestroyed(r, rec, "TokenRefreshFailed")
                /\ hsDone' = FALSE
                /\ needHs' = TRUE
        /\ UNCHANGED <<minted, spent>>
     \/ /\ minted < MaxMint
        /\ \E data \in TokenResponses :
             Handler(r, [rec EXCEPT !.sess = Refreshed(rec.sess, data, now),
                                    !.tokResp = data, !.tokAt = now])
        /\ minted' = minted + 1
        /\ spent' = spent \cup {rec.sentRT}
        /\ UNCHANGED <<hsDone, needHs>>
  /\ UNCHANGED <<now, accepted>>

RefreshReturnFallingThrough(r) ==
  /\ req[r].pc = "refresh"
  /\ LET rec == req[r] IN
     \/ /\ Handler(r, [Destroyed(rec) EXCEPT !.resp = "TokenRefreshFailed",
                                             !.answers = @ + 1])
        /\ hsDone' = FALSE
        /\ needHs' = TRUE
        /\ UNCHANGED <<minted, spent>>
     \/ /\ minted < MaxMint
        /\ \E data \in TokenResponses :
             Handler(r, [rec EXCEPT !.sess = Refreshed(rec.sess, data, now),
                                    !.tokResp = data, !.tokAt = now])
        /\ minted' = minted + 1
        /\ spent' = spent \cup {rec.sentRT}
        /\ UNCHANGED <<hsDone, needHs>>
  /\ UNCHANGED <<now, accepted>>

RefreshReturn(r) ==
  /\ req[r].pc = "refresh"
  /\ LET rec == req[r] IN
     \/ /\ RespondDestroyed(r, rec, "TokenRefreshFailed")
        /\ hsDone' = FALSE
        /\ needHs' = TRUE
        /\ UNCHANGED <<minted, spent>>
     \/ /\ minted < MaxMint
        /\ \E data \in TokenResponses :
             Handler(r, [rec EXCEPT !.sess = Refreshed(rec.sess, data, now),
                                    !.tokResp = data, !.tokAt = now])
        /\ minted' = minted + 1
        /\ spent' = spent \cup {rec.sentRT}
        /\ UNCHANGED <<hsDone, needHs>>
  /\ UNCHANGED <<now, accepted>>

\* The Jira API answers the downstream call.
TicketResult(sess, data) ==
  [success |-> TRUE, key |-> data.key, id |-> data.id,
   url |-> TicketUrl(sess.siteUrl, data.key)]

DownstreamReturn(r) ==
  /\ req[r].pc = "downstream"
  /\ LET rec == req[r] IN
     \/ Respond(r, rec, "UpstreamError")
     \/ /\ rec.kind # "ticket"
        /\ Respond(r, rec, "OK")
     \/ /\ rec.kind = "ticket"
        /\ \E k \in TicketKeys :
             LET data == [key |-> k, id |-> k] IN
             Respond(r, [rec EXCEPT !.upstream = data,
                                    !.result = TicketResult(rec.sess, data)],
                     "OK")
  /\ UNCHANGED <<now, minted, spent, hsDone, needHs, accepted>>

\* ------------------------------------------------------- specifications
Quiet == \A r \in Reqs : ~InFlight(r)

Step ==
  \/ Tick /\ UNCHANGED <<overlaps, disc, superseded>>
  \/ \E r \in Reqs : Initiate(r) /\ UNCHANGED overlaps
  \/ \E r \in Reqs : Callback(r) /\ UNCHANGED <<overlaps, disc>>
  \/ \E r \in Reqs : ExchangeReturn(r) /\ UNCHANGED <<overlaps, disc, superseded>>
  \/ \E r \in Reqs : DiscoveryReturn(r) /\ UNCHANGED <<overlaps, superseded>>
  \/ \E r \in Reqs : Status(r) /\ UNCHANGED <<overlaps, disc, superseded>>
  \/ \E r \in Reqs : Disconnect(r) /\ UNCHANGED overlaps
  \/ \E r \in Reqs : ApiEnter(r) /\ UNCHANGED <<overlaps, disc, superseded>>
  \/ \E r \in Reqs : RefreshReturn(r) /\ UNCHANGED <<overlaps, disc, superseded>>
  \/ \E r \in Reqs : DownstreamReturn(r) /\ UNCHANGED <<overlaps, disc, superseded>>
  \/ \E r \in Reqs : Release(r) /\ UNCHANGED overlaps

\* Requests of the session are served one at a time.
Next ==
  \/ Step
  \/ /\ Quiet
     /\ \E r \in Reqs, k \in Kinds : \E query \in Queries(k) : Arrive(r, k, query)

Spec == Init /\ [][Next]_vars

\* Requests of the session may overlap: up to MaxOverlap requests of a run
\* arrive while another one is still in flight.  The requests that overlap
\* are the API calls a page sends without waiting for one another, the
\* overlapping one with its required parameters filled in.
NextConc ==
  \/ Step
  \/ /\ Quiet
     /\ \E r \in Reqs, k \in Kinds : \E query \in Queries(k) : Arrive(r, k, query)
  \/ /\ ~Quiet /\ overlaps < MaxOverlap
     /\ \A o \in Reqs : InFlight(o) => req[o].kind \in ApiKinds
     /\ \E r \in Reqs, k \in ApiKinds : \E query \in Queries(k) :
          ~MissingParams(k, query) /\ Arrive(r, k, query)

ConcSpec == Init /\ [][NextConc]_vars

\* The steps of request r that the server itself takes: a handler segment
\* that is ready to run, or the continuation after an awaited call.
Serve(r) ==
  \/ Initiate(r) /\ UNCHANGED overlaps
  \/ Callback(r) /\ UNCHANGED <<overlaps, disc>>
  \/ ExchangeReturn(r) /\ UNCHANGED <<overlaps, disc, superseded>>
  \/ DiscoveryReturn(r) /\ UNCHANGED <<overlaps, superseded>>
  \/ Status(r) /\ UNCHANGED <<overlaps, disc, superseded>>
  \/ Disconnect(r) /\ UNCHANGED overlaps
  \/ ApiEnter(r) /\ UNCHANGED <<overlaps, disc, superseded>>
  \/ RefreshReturn(r) /\ UNCHANGED <<overlaps, disc, superseded>>
  \/ DownstreamReturn(r) /\ UNCHANGED <<overlaps, disc, superseded>>

\* Requests served one at a time, where the event loop runs every handler
\* segment that is ready and every awaited call returns or fails.
LiveSpec == Spec /\ \A r \in Reqs : WF_vars(Serve(r))

\* ------------------------------------------------------------- properties
Done(r) == req[r].pc = "done"
Creds(sess) == <<sess.accessToken, sess.refreshToken, sess.tokenExpiry,
                 sess.cloudId, sess.siteName, sess.siteUrl>>
Tokens(sess) == <<sess.accessToken, sess.refreshToken, sess.tokenExpiry>>
CheckRan(r) == req[r].kind = "callback" /\ req[r].pc # "callback"
Entered(r) == req[r].kind \in ApiKinds /\ req[r].pc \notin ApiKinds
StateMismatch(rec) ==
  rec.q.state = Undefined \/ rec.q.state # rec.orig.oauthState

\* C1: a callback whose state parameter is missing or differs from the
\* session's pending oauthState (a session without pending state included) is
\* rejected as a CSRF mismatch, having issued no network call and with the
\* session's credential fields as they were.
C1_MismatchRejectedBeforeAnyCall ==
  \A r \in Reqs :
    CheckRan(r) /\ StateMismatch(req[r]) =>
      /\ Done(r)
      /\ req[r].resp = "CsrfMismatch"
      /\ req[r].calls = NoCalls
      /\ Creds(req[r].sess) = Creds(req[r].orig)
      /\ Creds(store) = Creds(req[r].orig)

\* C1 witness: a callback presenting a wrong, non-empty state on a connected
\* session with a pending state was answered.
C1_Witness ==
  \E r \in Reqs :
    /\ Done(r) /\ req[r].kind = "callback"
    /\ req[r].q.state # Undefined /\ req[r].q.code # Undefined
    /\ req[r].orig.oauthState # Undefined
    /\ req[r].q.state # req[r].orig.oauthState
    /\ req[r].orig.accessToken # Undefined

\* C2 (as claimed): the stored session holds an accessToken iff a handshake
\* on it completed exchange and discovery, and after a callback that failed
\* the tokens of that attempt are not stored.
C2_NoPartialRecord ==
  /\ Authenticated(store) <=> hsDone
  /\ \A r \in Reqs :
       Done(r) /\ req[r].kind = "callback"
               /\ req[r].resp = "AuthorizationFailed" =>
         \/ req[r].tokResp.access_token = Undefined
         \/ store.accessToken # req[r].tokResp.access_token

\* C3 (as claimed): after any callback request, accepted or rejected, the
\* session holds no pending oauthState.
C3_StateDeletedWhateverTheComparison ==
  \A r \in Reqs :
    Done(r) /\ req[r].kind = "callback" => store.oauthState = Undefined

\* C3 (amended): once the state comparison of a callback has passed, the
\* pending oauthState is deleted at once, whatever the later steps do; a
\* callback rejected by the comparison leaves the pending state as it was.
C3_StateDeletedOncePassed ==
  \A r \in Reqs :
    CheckRan(r) =>
      IF StateMismatch(req[r])
      THEN /\ req[r].sess.oauthState = req[r].orig.oauthState
           /\ store.oauthState = req[r].orig.oauthState
      ELSE /\ req[r].sess.oauthState = Undefined
           /\ Done(r) => store.oauthState = Undefined

\* C3 witness: a callback passed the comparison and then failed in a later
\* step (exchange or discovery).
C3_Witness ==
  \E r \in Reqs :
    /\ Done(r) /\ req[r].kind = "callback"
    /\ req[r].resp = "AuthorizationFailed"
    /\ req[r].orig.oauthState # Undefined

\* C4: a callback presenting the state value that an earlier callback already
\* passed with, no initiate in between, is rejected as a state mismatch and
\* issues no network call, whatever became of the earlier callback.
C4_StateSingleUse ==
  \A r \in Reqs :
    CheckRan(r) /\ req[r].replay =>
      /\ Done(r)
      /\ req[r].resp = "CsrfMismatch"
      /\ req[r].calls = NoCalls

\* C4 witness: the same (code, state) was presented a second time, after a
\* first callback that completed the handshake.
C4_Witness ==
  \E r \in Reqs :
    /\ Done(r) /\ req[r].replay /\ req[r].q.code # Undefined
    /\ hsDone

\* C5: a request that went through the refresh check issued a refresh call
\* iff now >= tokenExpiry at the check; with tokenExpiry in the future the
\* tokens and the expiry stay as they were.
C5_RefreshIffExpired ==
  \A r \in Reqs :
    Entered(r) /\ Authenticated(req[r].orig) =>
      /\ req[r].calls.refresh = (IF req[r].chkNow >= req[r].chkExp THEN 1 ELSE 0)
      /\ req[r].chkNow < req[r].chkExp =>
           /\ Tokens(req[r].sess) = Tokens(req[r].orig)
           /\ Tokens(store) = Tokens(req[r].orig)

\* C5 witness: the check ran at the very instant now = tokenExpiry and the
\* refresh call was issued.
C5_Witness ==
  \E r \in Reqs :
    /\ Entered(r) /\ req[r].chkNow = req[r].chkExp
    /\ req[r].calls.refresh = 1

\* C6: after a refresh that succeeded the session's accessToken, refreshToken
\* and tokenExpiry are those of the response, and a refresh call never sends
\* a refresh token that an earlier, successful refresh call had sent.
C6_RefreshRotates ==
  \A r \in Reqs :
    /\ req[r].pc = "refresh" => req[r].sentRT \notin spent
    /\ Entered(r) /\ req[r].tokResp.access_token # Undefined =>
         /\ req[r].sess.accessToken = req[r].tokResp.access_token
         /\ req[r].sess.refreshToken = req[r].tokResp.refresh_token
         /\ req[r].sess.tokenExpiry =
              req[r].tokAt + req[r].tokResp.expires_in * MsPerSec
         /\ Done(r) => Tokens(store) = Tokens(req[r].sess)

\* C6 witness: a refresh call is in flight after an earlier refresh succeeded.
C6_Witness ==
  \E r \in Reqs : req[r].pc = "refresh" /\ spent # {}

\* C7 (as claimed): a failed refresh destroys the credential record and ends
\* the request with "must reconnect" and no downstream call, and every API
\* request made after it, before a handshake succeeded, is answered
\* NotAuthenticated.
C7_FailedRefreshForcesHandshake ==
  \A r \in Reqs :
    /\ req[r].resp = "TokenRefreshFailed" =>
         /\ req[r].calls.downstream = 0
         /\ Creds(store) = Creds(EmptySession)
    /\ Entered(r) /\ req[r].afterFail =>
         Done(r) /\ req[r].resp = "NotAuthenticated"

\* C8 (as claimed): an issue-types request without projectKey on an
\* authenticated session is answered MissingParameter and issues no network
\* call at all, with an expired token too.
C8_MissingProjectKeyNoCall ==
  \A r \in Reqs :
    /\ req[r].kind = "issuetypes" /\ req[r].q.projectKey = Undefined
    /\ Authenticated(req[r].orig)
    => /\ req[r].calls = NoCalls
       /\ Done(r) => req[r].resp = "MissingParameter"

MissingTicketField(query) ==
  \/ query.projectKey = Undefined
  \/ query.issueType = Undefined
  \/ query.summary = Undefined

\* C9 (as claimed): a ticket request on an authenticated session that lacks
\* projectKey, issueType or summary is answered MissingParameter and sends no
\* ticket-creation call.
C9_MissingFieldRejected ==
  \A r \in Reqs :
    /\ req[r].kind = "ticket" /\ MissingTicketField(req[r].q)
    /\ Authenticated(req[r].orig)
    => /\ req[r].calls.downstream = 0
       /\ Done(r) => req[r].resp = "MissingParameter"

\* C9 (amended): such a request never sends a ticket-creation call, and it is
\* answered MissingParameter unless its token had expired and the refresh
\* failed, in which case it is answered TokenRefreshFailed.
C9_MissingFieldRejectedUnlessRefreshFails ==
  \A r \in Reqs :
    /\ req[r].kind = "ticket" /\ MissingTicketField(req[r].q)
    /\ Authenticated(req[r].orig)
    => /\ req[r].calls.downstream = 0
       /\ req[r].pc \in {"ticket", "refresh", "done"}
       /\ Done(r) =>
            req[r].resp = (IF req[r].calls.refresh = 1
                              /\ req[r].tokResp.access_token = Undefined
                           THEN "TokenRefreshFailed" ELSE "MissingParameter")

\* C9 witness: a ticket request with a description but no summary was answered.
C9_Witness ==
  \E r \in Reqs :
    /\ Done(r) /\ req[r].kind = "ticket"
    /\ req[r].q.summary = Undefined /\ req[r].q.description # Undefined
    /\ req[r].q.projectKey # Undefined /\ req[r].q.issueType # Undefined
    /\ req[r].resp = "MissingParameter"

\* C10: a request to an API endpoint on a session without access token is
\* answered NotAuthenticated, issues no network call and leaves the session
\* as it was.
C10_NoTokenNotAuthenticated ==
  \A r \in Reqs :
    Entered(r) /\ req[r].orig.accessToken = Undefined =>
      /\ Done(r)
      /\ req[r].resp = "NotAuthenticated"
      /\ req[r].calls = NoCalls
      /\ req[r].sess = req[r].orig
      /\ ~req[r].saved
      /\ store = req[r].orig

\* C10 witness: a complete ticket request was answered on a session that has
\* a pending handshake and no access token.
C10_Witness ==
  \E r \in Reqs :
    /\ Done(r) /\ req[r].kind = "ticket" /\ ~MissingTicketField(req[r].q)
    /\ req[r].orig.accessToken = Undefined
    /\ req[r].orig.oauthState # Undefined

Site(sess) == <<sess.cloudId, sess.siteName, sess.siteUrl>>

\* C11 (as claimed): a disconnect empties the stored session, and every
\* request made after it, before a handshake completed, finds it so: status
\* answers not connected, every API endpoint answers NotAuthenticated, and a
\* callback presenting the state that was pending is rejected.
C11_DisconnectedUntilHandshake ==
  \A r \in Reqs :
    /\ Done(r) /\ req[r].kind = "disconnect" => store = EmptySession
    /\ req[r].afterDisc /\ req[r].kind = "status" /\ Done(r) =>
         req[r].resp = "NotConnected"
    /\ req[r].afterDisc /\ Entered(r) =>
         Done(r) /\ req[r].resp = "NotAuthenticated"
    /\ req[r].afterDisc /\ req[r].stale /\ CheckRan(r) =>
         Done(r) /\ req[r].resp = "CsrfMismatch"

\* C12: after a callback that succeeded the stored accessToken and
\* refreshToken are those of the token response, tokenExpiry is the time of
\* that response plus expires_in seconds, and cloudId, siteName, siteUrl are
\* the id, name, url of the first entry of the discovery list; an empty
\* discovery list fails the handshake with "No accessible Jira sites found".
C12_RecordFromResponses ==
  \A r \in Reqs :
    /\ Done(r) /\ req[r].kind = "callback"
               /\ req[r].resp = "AuthorizationSuccessful" =>
         /\ req[r].saved
         /\ store.accessToken = req[r].tokResp.access_token
         /\ store.refreshToken = req[r].tokResp.refresh_token
         /\ store.tokenExpiry =
              req[r].tokAt + req[r].tokResp.expires_in * MsPerSec
         /\ req[r].listed /\ Len(req[r].resources) >= 1
         /\ store.cloudId = req[r].resources[1].id
         /\ store.siteName = req[r].resources[1].name
         /\ store.siteUrl = req[r].resources[1].url
    /\ req[r].kind = "callback" /\ req[r].listed /\ req[r].resources = <<>> =>
         /\ Done(r)
         /\ req[r].resp = "AuthorizationFailed"
         /\ req[r].message = "No accessible Jira sites found"

\* C12 witness: a handshake succeeded on a discovery list of two different
\* sites.
C12_Witness ==
  \E r \in Reqs :
    /\ Done(r) /\ req[r].resp = "AuthorizationSuccessful"
    /\ Len(req[r].resources) = 2
    /\ req[r].resources[1] # req[r].resources[2]

\* C13: a ticket request with all required fields on a connected session
\* sends as description text the given description, or the placeholder when
\* there is none, is addressed to the session's cloudId, and on an upstream
\* answer {key, id} returns {success: true, key, id, url} with url the
\* session's siteUrl followed by /browse/ and the key.
C13_TicketRequestAndResult ==
  \A r \in Reqs :
    /\ req[r].kind = "ticket" /\ ~MissingTicketField(req[r].q)
    /\ Connected(req[r].orig) /\ req[r].calls.downstream = 1
    => /\ req[r].sentText = (IF req[r].q.description = Undefined
                             THEN NoDescriptionProvided
                             ELSE req[r].q.description)
       /\ req[r].tenant = req[r].orig.cloudId
       /\ Done(r) /\ req[r].resp = "OK" =>
            /\ req[r].upstream.key \in TicketKeys
            /\ req[r].result =
                 [success |-> TRUE, key |-> req[r].upstream.key,
                  id |-> req[r].upstream.id,
                  url |-> <<req[r].orig.siteUrl, "/browse/",
                            req[r].upstream.key>>]

\* C13 witness: a ticket without description was created on a connected
\* session.
C13_Witness ==
  \E r \in Reqs :
    /\ Done(r) /\ req[r].kind = "ticket" /\ req[r].resp = "OK"
    /\ req[r].q.description = Undefined
    /\ Connected(req[r].orig)

\* C14 (as claimed): in every reachable state, overlapping requests of the
\* session included, at most one refresh call to the token endpoint is in
\* flight.
C14_RefreshSingleFlight ==
  Cardinality({r \in Reqs : req[r].pc = "refresh"}) <= 1

\* C15 (as claimed): once the record has a cloudId, the record's cloudId,
\* siteName and siteUrl stay as they are while the record exists, and an
\* initiate or a further callback leaves the whole record as it was.
C15_SiteFixedForLife ==
  \A r \in Reqs :
    Done(r) /\ Connected(req[r].orig) =>
      /\ Connected(store) => Site(store) = Site(req[r].orig)
      /\ req[r].kind \in {"initiate", "callback"} =>
           Creds(store) = Creds(req[r].orig)

\* C15 (amended): on a session whose record has a cloudId, an initiate and a
\* status request leave the record as it was; an API request leaves cloudId,
\* siteName and siteUrl as they were and changes the tokens only by a refresh
\* that succeeded, or destroys the record when the refresh failed; a callback
\* changes the tokens only when its exchange succeeded and changes cloudId,
\* siteName, siteUrl only when it succeeded as a whole, to the first entry of
\* its discovery list; a disconnect destroys the record.
C15_RecordChangesOnlyByRefreshOrCallback ==
  \A r \in Reqs :
    Connected(req[r].orig) =>
      /\ req[r].kind \in {"initiate", "status"} =>
           /\ Creds(req[r].sess) = Creds(req[r].orig)
           /\ Creds(store) = Creds(req[r].orig)
      /\ req[r].kind \in ApiKinds =>
           IF req[r].resp = "TokenRefreshFailed"
           THEN Creds(store) = Creds(EmptySession)
           ELSE /\ Site(req[r].sess) = Site(req[r].orig)
                /\ Site(store) = Site(req[r].orig)
                /\ req[r].tokResp.access_token = Undefined =>
                     /\ Tokens(req[r].sess) = Tokens(req[r].orig)
                     /\ Tokens(store) = Tokens(req[r].orig)
      /\ req[r].kind = "callback" =>
           /\ req[r].tokResp.access_token = Undefined =>
                /\ Creds(req[r].sess) = Creds(req[r].orig)
                /\ Creds(store) = Creds(req[r].orig)
           /\ req[r].resp # "AuthorizationSuccessful" =>
                /\ Site(req[r].sess) = Site(req[r].orig)
                /\ Site(store) = Site(req[r].orig)
           /\ req[r].resp = "AuthorizationSuccessful" =>
                Site(store) = <<req[r].resources[1].id,
                                req[r].resources[1].name,
                                req[r].resources[1].url>>
      /\ Done(r) /\ req[r].kind = "disconnect" =>
           Creds(store) = Creds(EmptySession)

\* C15 witness: a further callback succeeded on a connected session and the
\* first entry of its discovery list was another site.
C15_Witness ==
  \E r \in Reqs :
    /\ Done(r) /\ req[r].resp = "AuthorizationSuccessful"
    /\ Connected(req[r].orig)
    /\ req[r].resources[1].id # req[r].orig.cloudId

\* C16: a downstream call is sent only by a request that ran the expiry check
\* before it, and carries the access token the session holds after the check:
\* the token of the refresh response when the check refreshed, never the
\* expired one.  Requests to the other endpoints, and the passing of time, run
\* no check and send no refresh or downstream call.
C16_CheckPrecedesDownstream ==
  \A r \in Reqs :
    /\ req[r].calls.downstream >= 1 =>
         /\ req[r].kind \in ApiKinds
         /\ req[r].chkNow # 0
         /\ req[r].bearer = req[r].sess.accessToken
         /\ IF req[r].calls.refresh >= 1
            THEN /\ req[r].bearer = req[r].tokResp.access_token
                 /\ req[r].bearer # req[r].orig.accessToken
            ELSE /\ req[r].bearer = req[r].orig.accessToken
                 /\ ~TokenExpired(req[r].orig, req[r].chkNow)
    /\ req[r].kind \notin ApiKinds =>
         /\ req[r].chkNow = 0
         /\ req[r].calls.refresh = 0
         /\ req[r].calls.downstream = 0

\* C16 witness: a downstream call is in flight in a request that refreshed.
C16_Witness ==
  \E r \in Reqs : req[r].pc = "downstream" /\ req[r].calls.refresh = 1

\* C17: a request issues each of its calls at most once (exchange, discovery,
\* refresh, downstream), and a call that failed ends the request with an
\* error response.
C17_NoRetry ==
  \A r \in Reqs :
    /\ req[r].calls.exchange <= 1 /\ req[r].calls.discovery <= 1
    /\ req[r].calls.refresh <= 1 /\ req[r].calls.downstream <= 1
    /\ req[r].calls.discovery = 1 => req[r].calls.exchange = 1
    /\ req[r].resp = "TokenRefreshFailed" =>
         Done(r) /\ req[r].calls.refresh = 1 /\ req[r].calls.downstream = 0
    /\ req[r].resp = "UpstreamError" =>
         Done(r) /\ req[r].calls.downstream = 1
    /\ req[r].resp = "AuthorizationFailed" =>
         Done(r) /\ req[r].calls.exchange = 1
    /\ req[r].pc = "refresh" => req[r].calls = [NoCalls EXCEPT !.refresh = 1]
    /\ req[r].pc = "exchange" => req[r].calls = [NoCalls EXCEPT !.exchange = 1]

\* C17 witness: a request's refresh call failed and the request was answered.
C17_Witness ==
  \E r \in Reqs :
    /\ Done(r) /\ req[r].resp = "TokenRefreshFailed"
    /\ req[r].calls.refresh = 1

\* C18: an initiate overwrites the pending state: a callback presenting a
\* state that a later initiate has overwritten is rejected as a state
\* mismatch before any call, and a callback passes the comparison only with
\* the state the last initiate stored.
C18_InitiateOverwritesPending ==
  \A r \in Reqs :
    /\ CheckRan(r) /\ req[r].stale =>
         /\ Done(r)
         /\ req[r].resp = "CsrfMismatch"
         /\ req[r].calls = NoCalls
    /\ CheckRan(r) /\ req[r].resp # "CsrfMismatch" =>
         /\ req[r].q.state = req[r].orig.oauthState
         /\ ~req[r].stale
    /\ Done(r) /\ req[r].kind = "initiate" =>
         /\ store.oauthState \in States
         /\ store.oauthState # superseded

\* C18 witness: a callback presented the state of the first of two initiates
\* while the state of the second was pending, and was answered.
C18_Witness ==
  \E r \in Reqs :
    /\ Done(r) /\ req[r].stale /\ ~req[r].afterDisc
    /\ req[r].q.code # Undefined
    /\ req[r].orig.oauthState # Undefined
    /\ req[r].q.state # req[r].orig.oauthState

\* C19: a callback whose state matches the pending state and whose code is
\* absent is answered MissingAuthorizationCode, issues no call, leaves the
\* credential fields as they were and deletes the pending state, so that the
\* same state presented again is rejected; with the state invalid too the
\* answer is the state mismatch.
C19_MissingCodeAfterStateCheck ==
  \A r \in Reqs :
    /\ CheckRan(r) /\ req[r].q.code = Undefined =>
         /\ Done(r)
         /\ req[r].calls = NoCalls
         /\ Creds(req[r].sess) = Creds(req[r].orig)
         /\ Creds(store) = Creds(req[r].orig)
         /\ IF StateMismatch(req[r])
            THEN req[r].resp = "CsrfMismatch"
            ELSE /\ req[r].resp = "MissingAuthorizationCode"
                 /\ req[r].sess.oauthState = Undefined
                 /\ store.oauthState = Undefined
                 /\ accepted = req[r].q.state
    /\ CheckRan(r) /\ req[r].replay /\ req[r].orig.oauthState = Undefined =>
         req[r].resp = "CsrfMismatch"

\* C19 witness: a callback with the pending state and no code was answered on
\* a session that had no credential record.
C19_Witness ==
  \E r \in Reqs :
    /\ Done(r) /\ req[r].kind = "callback"
    /\ req[r].q.code = Undefined
    /\ req[r].q.state # Undefined
    /\ req[r].q.state = req[r].orig.oauthState
    /\ req[r].orig.accessToken = Undefined

\* C20 (as claimed): whenever the session holds an accessToken (the API guard
\* admits its requests) it holds a cloudId as well (status answers connected),
\* and no downstream call is sent with an undefined cloudId.
C20_GuardAgreesWithStatus ==
  /\ Authenticated(store) => Connected(store)
  /\ \A r \in Reqs :
       /\ Entered(r) /\ Authenticated(req[r].orig) => Connected(req[r].orig)
       /\ req[r].calls.downstream >= 1 => req[r].tenant # Undefined

\* C21 (as claimed): whenever the stored session holds an access token and a
\* cloudId, the token descends (by refreshes) from the handshake that stored
\* the cloudId; a further callback on a connected session that fails at
\* discovery does not leave its tokens stored with the earlier cloudId.
C21_TokenAndSiteOfOneHandshake ==
  /\ Connected(store) => store.tokenHs = store.siteHs
  /\ \A r \in Reqs :
       /\ Done(r) /\ req[r].kind = "callback" /\ Connected(req[r].orig)
       /\ req[r].resp = "AuthorizationFailed"
       /\ req[r].tokResp.access_token # Undefined
       => ~ /\ store.accessToken = req[r].tokResp.access_token
            /\ store.cloudId = req[r].orig.cloudId

\* C22: every request gets exactly one response: no request has more than
\* one answer, it has one exactly when it is over, nothing of an answered
\* request runs on, and (every ready handler segment being run and every
\* awaited call returning or failing) every request that arrived is answered.
C22_ExactlyOneResponse ==
  /\ [](\A r \in Reqs : /\ req[r].answers <= 1
                        /\ Done(r) <=> req[r].answers = 1
                        /\ Done(r) <=> req[r].resp # "none")
  /\ [][\A r \in Reqs : Done(r) => req'[r] \in {req[r], IdleReq}]_vars
  /\ \A r \in Reqs : InFlight(r) ~> Done(r)

\* C22 witness: a ticket request was answered after its refresh succeeded and
\* its upstream call failed.
C22_Witness ==
  \E r \in Reqs :
    /\ Done(r) /\ req[r].kind = "ticket" /\ req[r].resp = "UpstreamError"
    /\ req[r].calls.refresh = 1 /\ req[r].answers = 1
====
